---- MODULE Spec2Model ----
(***************************************************************************)
(* export-obsidian.py: export one markdown note, the notes it links with   *)
(* [[wiki-links]] and the assets it references with ![alt](url) / [t](url) *)
(* into one flat output directory.                                         *)
(*                                                                         *)
(* Strings are sequences of one-character strings, so that the regular     *)
(* expressions, str.split, str.startswith/endswith and the pathlib         *)
(* accessors are computed character by character as the program does.      *)
(***************************************************************************)
EXTENDS Naturals, Sequences, FiniteSets

\* Number of link segments a generated target document is built from.
MaxSegs == 3

(***************************************************************************)
(* Strings                                                                 *)
(***************************************************************************)
NL == "\n"

UpperCase == <<"A","B","C","D","E","F","G","H","I","J","K","L","M",
               "N","O","P","Q","R","S","T","U","V","W","X","Y","Z">>
LowerCase == <<"a","b","c","d","e","f","g","h","i","j","k","l","m",
               "n","o","p","q","r","s","t","u","v","w","x","y","z">>

\* str.lower(), one character
LowerChar(c) ==
  IF \E i \in 1..26 : UpperCase[i] = c
    THEN LowerCase[CHOOSE i \in 1..26 : UpperCase[i] = c]
    ELSE c

\* str.lower()
Lower(s) == [i \in 1..Len(s) |-> LowerChar(s[i])]

\* s[i:j+1] (1-based, inclusive), empty when out of order
Slice(s, i, j) == IF i > j THEN <<>> ELSE SubSeq(s, i, j)

\* does pat occur in s at index i
At(s, pat, i) ==
  /\ i >= 1
  /\ i + Len(pat) - 1 <= Len(s)
  /\ SubSeq(s, i, i + Len(pat) - 1) = pat

\* str.startswith
StartsWith(s, pat) == At(s, pat, 1)

\* str.endswith
EndsWith(s, pat) == At(s, pat, Len(s) - Len(pat) + 1)

\* str.find(c) + 1 for a one-character c: the first index of c, 0 when absent
RECURSIVE FindFrom(_, _, _)
FindFrom(s, c, i) ==
  IF i > Len(s) THEN 0
  ELSE IF s[i] = c THEN i
  ELSE FindFrom(s, c, i + 1)

\* str.rfind(c) + 1 for a one-character c: the last index of c, 0 when absent
RECURSIVE RFindFrom(_, _, _)
RFindFrom(s, c, i) ==
  IF i < 1 THEN 0
  ELSE IF s[i] = c THEN i
  ELSE RFindFrom(s, c, i - 1)

(***************************************************************************)
(* The regular expressions.  '.' matches every character but a newline and *)
(* '.*?' is lazy, so a lazy run followed by a literal ends at the first    *)
(* occurrence of the literal on the same line (a later occurrence is tried *)
(* only on backtracking, and what follows the first occurrence contains    *)
(* what follows every later one).                                          *)
(***************************************************************************)

\* '.*?' then the literal pat, from index i: the index where pat starts, 0
\* when the line ends first
RECURSIVE LazyTo(_, _, _)
LazyTo(s, pat, i) ==
  IF i > Len(s) THEN 0
  ELSE IF At(s, pat, i) THEN i
  ELSE IF s[i] = NL THEN 0
  ELSE LazyTo(s, pat, i + 1)

NoMatch == [ok |-> FALSE, cap |-> <<>>, end |-> 0]

\* '(.*?)(?:\|.*?)?\]\]' from index e, the group starting at index b
RECURSIVE WikiTail(_, _, _)
WikiTail(s, b, e) ==
  IF e > Len(s) THEN NoMatch
  ELSE IF At(s, <<"]", "]">>, e)
    THEN [ok |-> TRUE, cap |-> Slice(s, b, e - 1), end |-> e + 1]
  ELSE IF s[e] = "|" /\ LazyTo(s, <<"]", "]">>, e + 1) # 0
    THEN [ok |-> TRUE, cap |-> Slice(s, b, e - 1),
          end |-> LazyTo(s, <<"]", "]">>, e + 1) + 1]
  ELSE IF s[e] = NL THEN NoMatch
  ELSE WikiTail(s, b, e + 1)

\* link_pattern = r'\[\[(.*?)(?:\|.*?)?\]\]' tried at index p
MatchWiki(s, p) ==
  IF At(s, <<"[", "[">>, p) THEN WikiTail(s, p + 2, p + 2) ELSE NoMatch

\* '.*?\]\((.*?)\)' from index i
MatchParen(s, i) ==
  LET k == LazyTo(s, <<"]", "(">>, i)
      j == IF k = 0 THEN 0 ELSE LazyTo(s, <<")">>, k + 2)
  IN  IF k = 0 \/ j = 0 THEN NoMatch
      ELSE [ok |-> TRUE, cap |-> Slice(s, k + 2, j - 1), end |-> j]

\* image_pattern = r'!\[.*?\]\((.*?)\)' tried at index p
MatchImage(s, p) ==
  IF At(s, <<"!", "[">>, p) THEN MatchParen(s, p + 2) ELSE NoMatch

\* asset_pattern = r'(?<!!)\[.*?\]\((.*?)\)' tried at index p
MatchAsset(s, p) ==
  IF At(s, <<"[">>, p) /\ ~At(s, <<"!">>, p - 1)
    THEN MatchParen(s, p + 1)
    ELSE NoMatch

\* re.findall: leftmost matches, scanning on from the end of each match
RECURSIVE FindAllWiki(_, _)
FindAllWiki(s, p) ==
  IF p > Len(s) THEN <<>>
  ELSE LET m == MatchWiki(s, p)
       IN  IF m.ok THEN <<m.cap>> \o FindAllWiki(s, m.end + 1)
           ELSE FindAllWiki(s, p + 1)

RECURSIVE FindAllImage(_, _)
FindAllImage(s, p) ==
  IF p > Len(s) THEN <<>>
  ELSE LET m == MatchImage(s, p)
       IN  IF m.ok THEN <<m.cap>> \o FindAllImage(s, m.end + 1)
           ELSE FindAllImage(s, p + 1)

RECURSIVE FindAllAsset(_, _)
FindAllAsset(s, p) ==
  IF p > Len(s) THEN <<>>
  ELSE LET m == MatchAsset(s, p)
       IN  IF m.ok THEN <<m.cap>> \o FindAllAsset(s, m.end + 1)
           ELSE FindAllAsset(s, p + 1)

\* matches = re.findall(link_pattern, content)
WikiMatches(content) == FindAllWiki(content, 1)

\* all_matches = image_matches + asset_matches
AllMatches(content) == FindAllImage(content, 1) \o FindAllAsset(content, 1)

(***************************************************************************)
(* pathlib.  A path is its string; Path('.') is the empty string.          *)
(***************************************************************************)

\* Path(s): runs of '/' collapse to one and a trailing '/' is dropped
RECURSIVE Collapse(_)
Collapse(s) ==
  IF Len(s) < 2 THEN s
  ELSE IF s[1] = "/" /\ s[2] = "/" THEN Collapse(Tail(s))
  ELSE <<s[1]>> \o Collapse(Tail(s))

PathOf(s) ==
  LET c == Collapse(s)
  IN  IF Len(c) > 1 /\ c[Len(c)] = "/" THEN Slice(c, 1, Len(c) - 1) ELSE c

\* Path.name
Name(p) == Slice(p, RFindFrom(p, "/", Len(p)) + 1, Len(p))

\* Path.parent
Parent(p) == Slice(p, 1, RFindFrom(p, "/", Len(p)) - 1)

\* Path.suffix
Suffix(p) ==
  LET n == Name(p)
      i == RFindFrom(n, ".", Len(n))
  IN  IF 1 < i /\ i < Len(n) THEN Slice(n, i, Len(n)) ELSE <<>>

\* base / rel
Join(base, rel) ==
  IF StartsWith(rel, <<"/">>) THEN PathOf(rel)
  ELSE IF base = <<>> THEN PathOf(rel)
  ELSE IF rel = <<>> THEN base
  ELSE PathOf(base \o <<"/">> \o rel)

DotMd == <<".", "m", "d">>

\* file_path = match; if not file_path.lower().endswith('.md'): file_path += '.md'
WithMd(m) == IF EndsWith(Lower(m), DotMd) THEN m ELSE m \o DotMd

\* mutant: 'http://' is missing from the prefixes
IsUrl_NoHttp(m) ==
  \/ StartsWith(m, <<"h","t","t","p","s",":","/","/">>)
  \/ StartsWith(m, <<"f","t","p",":","/","/">>)

\* match.startswith(('http://', 'https://', 'ftp://'))
IsUrl(m) ==
  \/ StartsWith(m, <<"h","t","t","p",":","/","/">>)
  \/ StartsWith(m, <<"h","t","t","p","s",":","/","/">>)
  \/ StartsWith(m, <<"f","t","p",":","/","/">>)

(***************************************************************************)
(* The world of one run: the regular files that exist, the command line,   *)
(* and the text of the target file.  The working directory holds s/ and    *)
(* v/, the vault; the output directory is empty and outside both.          *)
(***************************************************************************)
Files ==
  { <<"v","/","a","_","v",".","b",".","m","d">>,
    <<"v","/","n",".","M","D">>,
    <<"v","/","n",".","t","x","t">>,
    <<"v","/","a",".","b",".","m","d">>,
    <<"s","/","a",".","b",".","m","d">>,
    <<"v","/","s","/","a",".","b",".","m","d">>,
    <<"v","/","u","/","a",".","b",".","m","d">>,
    <<"v","/","q">>,
    <<"v","/","s","/","q">> }

\* args.target_file
TargetArgs ==
  { <<"v","/","a","_","v",".","b",".","m","d">>,
    <<"v","/","n",".","M","D">>,
    <<"v","/","a",".","b",".","m","d">>,
    <<"v","/","n",".","t","x","t">>,
    <<"v","/","z","z",".","m","d">> }

\* the directories that hold them; the empty path is the working directory
Dirs ==
  { <<>>, <<"v">>, <<"s">>, <<"v","/","s">>, <<"v","/","u">> }

\* Path.exists()
Exists(p) == p \in Files \cup Dirs

\* Path.exists() and Path.is_file()
IsFile(p) == Exists(p) /\ p \in Files

\* the links a target document is written with
Segments ==
  { [k |-> "wiki",  ref |-> <<"a",".","b">>],
    [k |-> "wikid", ref |-> <<"s","/","a",".","b",".","m","d">>],
    [k |-> "wiki",  ref |-> <<"z","z">>],
    [k |-> "img",   ref |-> <<"q">>],
    [k |-> "link",  ref |-> <<"s","/","q">>],
    [k |-> "link",  ref |-> <<"u","/","a",".","b",".","m","d">>],
    [k |-> "img",   ref |-> <<"h","t","t","p",":","/","/","x">>],
    [k |-> "link",  ref |-> <<"z","z">>],
    [k |-> "nl",    ref |-> <<>>] }

Docs == UNION { [1..n -> Segments] : n \in 0..MaxSegs }

\* the text of one link
RenderSeg(g) ==
  CASE g.k = "wiki"  -> <<"[","[">> \o g.ref \o <<"]","]">>
    [] g.k = "wikid" -> <<"[","[">> \o g.ref \o <<"|","d","]","]">>
    [] g.k = "img"   -> <<"!","[","i","]","(">> \o g.ref \o <<")">>
    [] g.k = "link"  -> <<"[","t","]","(">> \o g.ref \o <<")">>
    [] g.k = "nl"    -> <<NL>>

RECURSIVE Render(_)
Render(d) == IF d = <<>> THEN <<>> ELSE RenderSeg(Head(d)) \o Render(Tail(d))

VARIABLES
  target,          \* args.target_file
  segs,            \* the links the target file was written with
  pc,              \* position in main()
  status,          \* exit status, "none" while running
  outdir_made,     \* output_path.mkdir has run
  matches,         \* find_linked_files: matches
  all_matches,     \* find_asset_references: all_matches
  mi,              \* index of the next match
  linked_files,    \* find_linked_files: linked_files
  assets,          \* find_asset_references: assets
  warnings,        \* "Warning: ..." lines printed
  checked,         \* paths tested with exists()/is_file()
  used_filenames,  \* copy_files_to_output: used_filenames
  outdir,          \* files of the output directory: name -> content
  copies,          \* "Copied ..." lines printed
  ci,              \* index of the next file to copy
  summary          \* the final tally, <<>> until printed

vars == <<target, segs, pc, status, outdir_made, matches, all_matches, mi,
          linked_files, assets, warnings, checked, used_filenames, outdir,
          copies, ci, summary>>

\* file.read() of the target file
Content == Render(segs)

\* base_dir = target_path.parent
BaseDir == Parent(PathOf(target))

Init ==
  /\ target \in TargetArgs
  /\ segs \in Docs
  /\ (target \notin Files => segs = <<>>)
  /\ pc = "start"
  /\ status = "none"
  /\ outdir_made = FALSE
  /\ matches = <<>>
  /\ all_matches = <<>>
  /\ mi = 1
  /\ linked_files = <<>>
  /\ assets = <<>>
  /\ warnings = <<>>
  /\ checked = {}
  /\ used_filenames = {}
  /\ outdir = <<>>
  /\ copies = <<>>
  /\ ci = 1
  /\ summary = <<>>

(***************************************************************************)
(* parse_arguments                                                         *)
(***************************************************************************)
\* mutant: the extension is not validated
TargetError_NoSuffixCheck(t) ==
  IF ~Exists(PathOf(t)) THEN "does not exist" ELSE ""

\* the two validations of the target file, in order; "" when it is accepted
TargetError(t) ==
  IF ~Exists(PathOf(t)) THEN "does not exist"
  ELSE IF Lower(Suffix(PathOf(t))) # DotMd THEN "is not a markdown file"
  ELSE ""

\* whether output_path.mkdir runs: only after both validations passed
MakesOutputDir(t) == TargetError(t) = ""

ParseArguments ==
  /\ pc = "start"
  /\ outdir_made' = MakesOutputDir(target)
  /\ IF TargetError(target) # ""
       THEN pc' = "exit" /\ status' = 1
       ELSE pc' = "find_linked" /\ status' = status
  /\ UNCHANGED <<target, segs, matches, all_matches, mi, linked_files, assets,
                 warnings, checked, used_filenames, outdir, copies, ci,
                 summary>>

(***************************************************************************)
(* find_linked_files and find_asset_references                             *)
(***************************************************************************)
\* mutant: only the path as written is tried
Resolve_AsWrittenOnly(base, file_path) ==
  IF IsFile(PathOf(file_path))
    THEN [found |-> TRUE, path |-> PathOf(file_path),
          tried |-> {PathOf(file_path)}]
    ELSE [found |-> FALSE, path |-> <<>>, tried |-> {PathOf(file_path)}]

\* the two-step resolution: the path as written, then relative to base_dir
Resolve(base, file_path) ==
  LET absolute_path == PathOf(file_path)
      relative_path == Join(base, file_path)
  IN  IF IsFile(absolute_path)
        THEN [found |-> TRUE, path |-> absolute_path,
              tried |-> {absolute_path}]
      ELSE IF IsFile(relative_path)
        THEN [found |-> TRUE, path |-> relative_path,
              tried |-> {absolute_path, relative_path}]
      ELSE [found |-> FALSE, path |-> <<>>,
            tried |-> {absolute_path, relative_path}]

\* mutant: a path already in the lists is not added again
Outcome_Deduplicated(kind, ref, r) ==
  [add   |-> IF r.found /\ \A i \in 1..Len(linked_files \o assets) :
                             (linked_files \o assets)[i] # r.path
               THEN <<r.path>> ELSE <<>>,
   warn  |-> IF r.found THEN <<>> ELSE <<[kind |-> kind, ref |-> ref]>>,
   tried |-> r.tried]

\* what one resolution adds: the path found, or else the warning printed
Outcome(kind, ref, r) ==
  [add   |-> IF r.found THEN <<r.path>> ELSE <<>>,
   warn  |-> IF r.found THEN <<>> ELSE <<[kind |-> kind, ref |-> ref]>>,
   tried |-> r.tried]

\* body of 'for match in matches' of find_linked_files
LinkedBody(base, match) ==
  Outcome("linked", WithMd(match), Resolve(base, WithMd(match)))

\* body of 'for match in all_matches' of find_asset_references
AssetBody(base, match) ==
  IF IsUrl(match)
    THEN [add |-> <<>>, warn |-> <<>>, tried |-> {}]
    ELSE Outcome("asset", match, Resolve(base, match))

FindLinkedFilesRead ==
  /\ pc = "find_linked"
  /\ matches' = WikiMatches(Content)
  /\ mi' = 1
  /\ pc' = "resolve_linked"
  /\ UNCHANGED <<target, segs, status, outdir_made, all_matches, linked_files,
                 assets, warnings, checked, used_filenames, outdir, copies,
                 ci, summary>>

ResolveLinked ==
  /\ pc = "resolve_linked"
  /\ mi <= Len(matches)
  /\ LET b == LinkedBody(BaseDir, matches[mi])
     IN  /\ linked_files' = linked_files \o b.add
         /\ warnings' = warnings \o b.warn
         /\ checked' = checked \cup {[kind |-> "linked", path |-> q] : q \in b.tried}
  /\ mi' = mi + 1
  /\ UNCHANGED <<target, segs, pc, status, outdir_made, matches, all_matches,
                 assets, used_filenames, outdir, copies, ci, summary>>

\* find_linked_files returns; find_asset_references reads the file again
FindAssetReferencesRead ==
  /\ pc = "resolve_linked"
  /\ mi > Len(matches)
  /\ all_matches' = AllMatches(Content)
  /\ mi' = 1
  /\ pc' = "resolve_assets"
  /\ UNCHANGED <<target, segs, status, outdir_made, matches, linked_files,
                 assets, warnings, checked, used_filenames, outdir, copies,
                 ci, summary>>

ResolveAsset ==
  /\ pc = "resolve_assets"
  /\ mi <= Len(all_matches)
  /\ LET b == AssetBody(BaseDir, all_matches[mi])
     IN  /\ assets' = assets \o b.add
         /\ warnings' = warnings \o b.warn
         /\ checked' = checked \cup {[kind |-> "asset", path |-> q] : q \in b.tried}
  /\ mi' = mi + 1
  /\ UNCHANGED <<target, segs, pc, status, outdir_made, matches, all_matches,
                 linked_files, used_filenames, outdir, copies, ci, summary>>

(***************************************************************************)
(* copy_files_to_output                                                    *)
(***************************************************************************)
\* mutant: the name is split at its last '.', as os.path.splitext does
Disambiguate_LastDot(name, parent_dir) ==
  LET i == RFindFrom(name, ".", Len(name))
  IN  IF i # 0
        THEN Slice(name, 1, i - 1) \o <<"_">> \o parent_dir \o <<".">>
             \o Slice(name, i + 1, Len(name))
        ELSE name \o <<"_">> \o parent_dir

\* the name given on a conflict: the parent directory's name goes before the
\* first '.', or at the end when the name has none
Disambiguate(name, parent_dir) ==
  LET i == FindFrom(name, ".", 1)
  IN  IF i # 0
        THEN Slice(name, 1, i - 1) \o <<"_">> \o parent_dir \o <<".">>
             \o Slice(name, i + 1, Len(name))
        ELSE name \o <<"_">> \o parent_dir

\* output_filename of a linked file or an asset (both loops compute it alike)
OutputName(used, path) ==
  IF Name(path) \in used
    THEN Disambiguate(Name(path), Name(Parent(path)))
    ELSE Name(path)

\* shutil.copy2 can fail before it opens the destination (source gone,
\* permission denied) or while it writes it (disk full), leaving it truncated
CopyResults == {"ok", "fail_before", "fail_partial"}

\* the output directory after shutil.copy2(src, output_path / name)
Copy2(dir, src, name, result) ==
  IF result = "fail_before" THEN dir
  ELSE [n \in DOMAIN dir \cup {name} |->
          IF n = name THEN [src |-> src, whole |-> result = "ok"]
          ELSE dir[n]]

\* one shutil.copy2 with its bookkeeping, or the uncaught exception
CopyStep(kind, src, name, result, next_pc, next_ci) ==
  /\ outdir' = Copy2(outdir, src, name, result)
  /\ IF result = "ok"
       THEN /\ used_filenames' = used_filenames \cup {name}
            /\ copies' = Append(copies, [kind |-> kind, src |-> src, out |-> name])
            /\ pc' = next_pc
            /\ ci' = next_ci
            /\ status' = status
       ELSE /\ pc' = "crashed"
            /\ status' = 1
            /\ UNCHANGED <<used_filenames, copies, ci>>
  /\ UNCHANGED <<target, segs, outdir_made, matches, all_matches, mi,
                 linked_files, assets, warnings, checked, summary>>

\* mutant: the list is walked from its end
NextFile_Reversed(files, i) == files[Len(files) + 1 - i]

\* 'for file_path in linked_files' / 'for asset_path in assets': the i-th file
NextFile(files, i) == files[i]

CopyTarget ==
  /\ pc = "resolve_assets"
  /\ mi > Len(all_matches)
  /\ \E result \in CopyResults :
       CopyStep("target", PathOf(target), Name(PathOf(target)), result,
                "copy_linked", 1)

CopyLinked ==
  /\ pc = "copy_linked"
  /\ ci <= Len(linked_files)
  /\ \E result \in CopyResults :
       CopyStep("linked", NextFile(linked_files, ci),
                OutputName(used_filenames, NextFile(linked_files, ci)), result,
                "copy_linked", ci + 1)

LinkedCopied ==
  /\ pc = "copy_linked"
  /\ ci > Len(linked_files)
  /\ pc' = "copy_assets"
  /\ ci' = 1
  /\ UNCHANGED <<target, segs, status, outdir_made, matches, all_matches, mi,
                 linked_files, assets, warnings, checked, used_filenames,
                 outdir, copies, summary>>

CopyAsset ==
  /\ pc = "copy_assets"
  /\ ci <= Len(assets)
  /\ \E result \in CopyResults :
       CopyStep("asset", NextFile(assets, ci),
                OutputName(used_filenames, NextFile(assets, ci)), result,
                "copy_assets", ci + 1)

(***************************************************************************)
(* main                                                                    *)
(***************************************************************************)
\* the four counts of "Export complete!"
Tally(linked, found) ==
  [target |-> 1, linked |-> Len(linked), assets |-> Len(found),
   total |-> 1 + Len(linked) + Len(found)]

PrintSummary ==
  /\ pc = "copy_assets"
  /\ ci > Len(assets)
  /\ summary' = <<Tally(linked_files, assets)>>
  /\ pc' = "done"
  /\ status' = 0
  /\ UNCHANGED <<target, segs, outdir_made, matches, all_matches, mi,
                 linked_files, assets, warnings, checked, used_filenames,
                 outdir, copies, ci>>

Next ==
  \/ ParseArguments
  \/ FindLinkedFilesRead
  \/ ResolveLinked
  \/ FindAssetReferencesRead
  \/ ResolveAsset
  \/ CopyTarget
  \/ CopyLinked
  \/ LinkedCopied
  \/ CopyAsset
  \/ PrintSummary

Spec == Init /\ [][Next]_vars

(***************************************************************************)
(* Properties                                                              *)
(***************************************************************************)
\* the links the target file was written with, in the order written
RECURSIVE RefsOf(_, _)
RefsOf(d, kinds) ==
  IF d = <<>> THEN <<>>
  ELSE (IF Head(d).k \in kinds THEN <<Head(d).ref>> ELSE <<>>)
       \o RefsOf(Tail(d), kinds)

WrittenWiki == RefsOf(segs, {"wiki", "wikid"})
WrittenMarkdown == RefsOf(segs, {"img", "link"})

Resolving == {"resolve_linked", "resolve_assets"}
Copying == {"copy_linked", "copy_assets"}

\* the source paths of the copies made so far
CopiedSrc == [i \in 1..Len(copies) |-> copies[i].src]

\* C1: the output filenames assigned to the target, the linked files and the
\* assets of one run are pairwise distinct, so no copy writes to a name
\* already written in the run.
C1_OutputNamesDistinct ==
  \A i, j \in 1..Len(copies) : i # j => copies[i].out # copies[j].out

\* C2: the target's filename is reserved for the target: no later entry is
\* assigned it, and after a completed run the file of that name in the
\* output directory holds the target's content.
C2_TargetNameReserved ==
  /\ \A i \in 2..Len(copies) : copies[i].out # Name(PathOf(target))
  /\ pc = "done" =>
       /\ Name(PathOf(target)) \in DOMAIN outdir
       /\ outdir[Name(PathOf(target))] = [src |-> PathOf(target), whole |-> TRUE]

\* the target file is missing, or its extension is not '.md' in any case
C3_Invalid ==
  \/ PathOf(target) \notin Files \cup Dirs
  \/ Lower(Suffix(PathOf(target))) # <<".", "m", "d">>

\* C3: with a missing target file, or one whose extension is not '.md'
\* (case-insensitively), the run ends with a non-zero status before any side
\* effect: no output directory, no reference extracted or resolved, no file
\* copied, no summary.
C3_InvalidTargetNoSideEffects ==
  (C3_Invalid /\ pc # "start") =>
    /\ pc = "exit"
    /\ status = 1
    /\ ~outdir_made
    /\ matches = <<>> /\ all_matches = <<>>
    /\ checked = {} /\ warnings = <<>>
    /\ linked_files = <<>> /\ assets = <<>>
    /\ outdir = <<>> /\ copies = <<>>
    /\ summary = <<>>

\* a run rejected for its extension although the file exists
C3_Witness == pc = "exit" /\ PathOf(target) \in Files

\* C5: a document written with N wiki-links and M markdown links/images
\* yields exactly the N wiki-link references and the M markdown references,
\* each sequence in the order the links occur in the document.
C5_ExtractionInSourceOrder ==
  /\ pc = "resolve_linked" => matches = WrittenWiki
  /\ pc = "resolve_assets" => all_matches = WrittenMarkdown

\* C8: the copies happen in the order target, linked files in resolution
\* order, assets in resolution order; a completed run has made them all.
C8_CopyOrder ==
  LET plan == <<PathOf(target)>> \o linked_files \o assets
  IN  /\ Len(copies) <= Len(plan)
      /\ CopiedSrc = SubSeq(plan, 1, Len(copies))
      /\ \A i \in 1..Len(copies) :
           copies[i].kind = IF i = 1 THEN "target"
                            ELSE IF i <= 1 + Len(linked_files) THEN "linked"
                            ELSE "asset"
      /\ pc = "done" => Len(copies) = Len(plan)

\* a completed run that copied two different linked files and an asset
C8_Witness ==
  /\ pc = "done"
  /\ Len(linked_files) >= 2 /\ linked_files[1] # linked_files[2]
  /\ Len(assets) >= 1

\* a remote reference: it begins with 'http://', 'https://' or 'ftp://'
RemotePrefixes ==
  { <<"h","t","t","p",":","/","/">>,
    <<"h","t","t","p","s",":","/","/">>,
    <<"f","t","p",":","/","/">> }

IsRemoteRef(m) ==
  \E pre \in RemotePrefixes :
    Len(m) >= Len(pre) /\ \A i \in 1..Len(pre) : m[i] = pre[i]

\* the file a reference names: as written first, then relative to the
\* target's directory; the empty path when it names none
FileOf(ref) ==
  IF PathOf(ref) \in Files THEN PathOf(ref)
  ELSE IF Join(BaseDir, ref) \in Files THEN Join(BaseDir, ref)
  ELSE <<>>

NamesNoFile(ref) == FileOf(ref) = <<>>
NamesAFile(ref) == FileOf(ref) # <<>>
NotRemote(m) == ~IsRemoteRef(m)

\* the wiki-link references the resolution loop has been through, '.md'
\* appended, and the non-remote markdown references it has been through
WikiSeen ==
  LET n == IF pc = "resolve_linked" THEN mi - 1 ELSE Len(matches)
  IN  [i \in 1..n |-> WithMd(matches[i])]

MarkdownSeen ==
  LET n == IF pc = "resolve_assets" THEN mi - 1 ELSE Len(all_matches)
  IN  SelectSeq(SubSeq(all_matches, 1, n), NotRemote)

Warned(kind, refs) == [i \in 1..Len(refs) |-> [kind |-> kind, ref |-> refs[i]]]

Suffixed(name, dir) ==
  IF \E i \in 1..Len(name) : name[i] = "."
    THEN LET i == CHOOSE i \in 1..Len(name) :
                    name[i] = "." /\ \A j \in 1..(i - 1) : name[j] # "."
         IN  SubSeq(name, 1, i - 1) \o <<"_">> \o dir \o SubSeq(name, i, Len(name))
    ELSE name \o <<"_">> \o dir

DirName(path) == Name(Parent(path))

\* copies i < j of two distinct resolved files that share a filename and
\* lie in different directories
SameNamePair(i, j) ==
  /\ 1 < i /\ i < j /\ j <= Len(copies)
  /\ copies[i].src # copies[j].src
  /\ Name(copies[i].src) = Name(copies[j].src)
  /\ Parent(copies[i].src) # Parent(copies[j].src)

\* C6 as stated: of two distinct resolved files sharing a filename, in
\* directories A and B, the first is assigned the bare filename and the
\* second '{stem}_{B}.{rest}' ('{name}_{B}' without '.').
C6_FirstBareSecondSuffixed ==
  \A i, j \in 1..Len(copies) :
    SameNamePair(i, j) =>
      /\ copies[i].out = Name(copies[i].src)
      /\ copies[j].out = Suffixed(Name(copies[j].src), DirName(copies[j].src))

\* C6 amended: the second is assigned '{stem}_{B}.{rest}' ('{name}_{B}'
\* without '.'); the first is assigned the bare filename unless an earlier
\* entry of the run (the target or an earlier file) was assigned that
\* filename, and then it is assigned '{stem}_{A}.{rest}'.
C6_SecondSuffixed ==
  \A i, j \in 1..Len(copies) :
    SameNamePair(i, j) =>
      /\ copies[i].out =
           IF \E h \in 1..(i - 1) : copies[h].out = Name(copies[i].src)
             THEN Suffixed(Name(copies[i].src), DirName(copies[i].src))
             ELSE Name(copies[i].src)
      /\ copies[j].out = Suffixed(Name(copies[j].src), DirName(copies[j].src))

\* a linked file and an asset that share a filename, the first copied under
\* the bare name; and two assets without extension
C6_Witness ==
  /\ pc = "done"
  /\ \E i, j \in 1..Len(copies) :
       /\ SameNamePair(i, j)
       /\ copies[i].kind = "linked" /\ copies[j].kind = "asset"
       /\ copies[i].out = Name(copies[i].src)
       /\ copies[j].out # Name(copies[j].src)

\* C7: a markdown reference that begins with 'http://', 'https://' or
\* 'ftp://' is never tested against the filesystem, as written or relative
\* to the target's directory, never warned about, and never in the asset
\* list or among the copies.
C7_RemoteNeverResolved ==
  LET all == all_matches
  IN  \A i \in 1..Len(all) :
        IsRemoteRef(all[i]) =>
          LET paths == {PathOf(all[i]), Join(BaseDir, all[i])}
          IN  /\ \A c \in checked : c.kind = "asset" => c.path \notin paths
              /\ \A w \in 1..Len(warnings) :
                   ~(warnings[w].kind = "asset" /\ warnings[w].ref = all[i])
              /\ \A a \in 1..Len(assets) : assets[a] \notin paths
              /\ \A c \in 1..Len(copies) : copies[c].src \notin paths

\* a completed run whose asset loop went past a remote reference and then
\* resolved a local one
C7_Witness ==
  /\ pc = "done"
  /\ Len(segs) = 2
  /\ IsRemoteRef(segs[1].ref)
  /\ assets # <<>>

\* C9: when a copy fails the run aborts there: what the earlier steps copied
\* is still in the output directory, unchanged, nothing further is copied
\* and no summary is printed; a summary is printed only after every planned
\* copy succeeded.
C9_FailureKeepsEarlierCopies ==
  /\ pc = "crashed" =>
       /\ summary = <<>>
       /\ status = 1
       /\ Cardinality(DOMAIN outdir) <= Len(copies) + 1
       /\ \A i \in 1..Len(copies) :
            LET last == CHOOSE j \in 1..Len(copies) :
                          /\ copies[j].out = copies[i].out
                          /\ \A h \in (j + 1)..Len(copies) :
                               copies[h].out # copies[i].out
            IN  /\ copies[i].out \in DOMAIN outdir
                /\ outdir[copies[i].out] = [src |-> copies[last].src, whole |-> TRUE]
  /\ summary # <<>> =>
       /\ Len(copies) = 1 + Len(linked_files) + Len(assets)
       /\ \A n \in DOMAIN outdir : outdir[n].whole

\* how often f occurs in the list s
Count(f, s) == Cardinality({i \in 1..Len(s) : s[i] = f})

\* the copies of kind made of file f, as indices of copies
CopiesOf(kind, f) ==
  {i \in 1..Len(copies) : copies[i].kind = kind /\ copies[i].src = f}

\* the references of a list that name file f
Naming(refs, f) == {i \in 1..Len(refs) : FileOf(refs[i]) = f}

\* no deduplication: after resolution a file named by k >= 2 captured
\* references is k times in its list, a completed run counts every resolved
\* reference in the summary and has copied the file k times
KeptKTimes ==
  pc \in Copying \cup {"done", "crashed"} =>
    LET wiki == WikiSeen
        md == MarkdownSeen
    IN  /\ \A f \in Files :
             /\ Cardinality(Naming(wiki, f)) >= 2 =>
                  Count(f, linked_files) = Cardinality(Naming(wiki, f))
             /\ Cardinality(Naming(md, f)) >= 2 =>
                  Count(f, assets) = Cardinality(Naming(md, f))
        /\ pc = "done" =>
             /\ summary[1].linked = Len(SelectSeq(wiki, NamesAFile))
             /\ summary[1].assets = Len(SelectSeq(md, NamesAFile))
             /\ summary[1].total = 1 + summary[1].linked + summary[1].assets
             /\ \A f \in Files :
                  /\ Cardinality(CopiesOf("linked", f)) = Count(f, linked_files)
                  /\ Cardinality(CopiesOf("asset", f)) = Count(f, assets)

\* copy i is of a file its list holds at least twice, and is the first of it
FirstOfRepeated(i) ==
  /\ Cardinality(CopiesOf(copies[i].kind, copies[i].src)) >= 2
  /\ \A h \in CopiesOf(copies[i].kind, copies[i].src) : h >= i

\* copy i is a later copy of a file its list holds at least twice
LaterOfRepeated(i) ==
  \E h \in CopiesOf(copies[i].kind, copies[i].src) : h < i

====
